---- MODULE Spec2Model ----
(***************************************************************************)
(* Model of the retrieval-augmented chat apps (seges-gpt-streamlit-app.py, *)
(* streamlit-app.py) and of the wiki ingestion helpers (util/helpers.py).  *)
(*                                                                         *)
(* A chat app is a Streamlit script: every user interaction re-runs the    *)
(* script from the top against the session state.  One script run is one   *)
(* action, split only where the script blocks on the chat-completion       *)
(* service (the create call and the token stream), because those are the   *)
(* points where an uncaught fault ends the run.  A widget event triggers   *)
(* exactly one run: the button is True, or the chat input holds a query,   *)
(* only in the run its own event started.                                  *)
(*                                                                         *)
(* Text is modelled by TLA+ strings and Python's + and join by \o; a       *)
(* prompt template is modelled by its parse into literal text and          *)
(* replacement fields, which is what str.format works on.                  *)
(***************************************************************************)
EXTENDS Naturals, Sequences, FiniteSets, TLC

VARIABLES app, messages, prompt_template, pc, trigger, raised, before,
          query, result, context, message, request, calls, response,
          stream, screen, shown,
          variant, pages, next, path_exists, files

chatVars == <<app, messages, prompt_template, pc, trigger, raised, before,
              query, result, context, message, request, calls, response,
              stream, screen, shown>>
ingestVars == <<variant, pages, next, path_exists, files>>
vars == <<app, messages, prompt_template, pc, trigger, raised, before,
          query, result, context, message, request, calls, response,
          stream, screen, shown, variant, pages, next, path_exists, files>>

(***************************************************************************)
(* Bounds of the model.                                                    *)
(***************************************************************************)
MaxMessages == 4
NumChunks == 2
MaxDeltas == 2
MaxPages == 2
MaxTitleLen == 2

(***************************************************************************)
(* Program constants.                                                      *)
(***************************************************************************)
N_RESULTS == 5

Apps == {"seges", "vtdat"}

Min(a, b) == IF a < b THEN a ELSE b

(***************************************************************************)
(* Prompt templates.                                                       *)
(***************************************************************************)
Lit(s) == [kind |-> "lit", text |-> s]
Field(n) == [kind |-> "field", text |-> n]

SegesDefaultPrompt ==
    <<Lit("You are a helpful assistant that answers questions about the content of documents and provides detailed expert advice. \n    You must provide your answer in the Danish language. Make the answer a short sentence and make it christmasy and fun.\n    If the answer contains multiple steps or points, provide the answer in a bullet format. Below the answer, you should add the source(s) of the information (file name and page number) formatted as in the following example.\n    But include only the one or maximum of two most relevant sources.\n    Kilder: (1) filnavn1, side 4 (2) filnavn2, side 36 (don't print the \".pdf\" extension).\n    ")>>

VtdatDefaultPrompt ==
    <<Lit("You are a helpful assistant that answers questions about the course material from \"Philosophy of Computer Science (VtDat)\" using provided context.\n    Context information is below.\n    ---------------------\n    "),
      Field("context"),
      Lit("\n    ---------------------\n    Given the context information and not prior knowledge, answer the query. Always provide an answer in the Danish language.\n    Query: "),
      Field("query"),
      Lit("\n    Answer: \n    ")>>

default_prompt(a) == IF a = "seges" THEN SegesDefaultPrompt ELSE VtdatDefaultPrompt

end_of_prompt ==
    <<Lit("\n    ---------------------\n    "),
      Field("context"),
      Lit("\n    ---------------------\n    Given the context information and not prior knowledge, answer the query.\n    Query: "),
      Field("query"),
      Lit("\n    Answer: \n")>>

\* The texts a user types into the side-panel field.
EditedTemplates ==
    { <<Lit("Svar kort.")>>,
      <<Lit("Kontekst: "), Field("context")>>,
      <<Lit("Svar paa "), Field("query")>>,
      <<Lit("Hej "), Field("navn"), Lit(": "), Field("query"), Lit(" "), Field("context")>> }

FieldNames(t) == { t[k].text : k \in { j \in 1..Len(t) : t[j].kind = "field" } }

\* PromptTemplate(...) as each app builds it from the field's text.
PromptTemplate(a, t) ==
    IF a = "seges" THEN t \o <<Lit(" ")>> \o end_of_prompt ELSE t

\* Variant: a keyword argument no field uses is an error too.
UnusedOrUnsuppliedFields(t) ==
    (FieldNames(t) \ {"query", "context"}) \cup ({"query", "context"} \ FieldNames(t))

\* The replacement fields str.format finds no keyword argument for, given
\* format(query=..., context=...): a keyword no field uses is ignored.
UnsuppliedFields(t) == FieldNames(t) \ {"query", "context"}

RECURSIVE Format(_, _, _)
Format(t, q, c) ==
    IF t = <<>> THEN ""
    ELSE LET seg == Head(t)
             out == IF seg.kind = "lit" THEN seg.text
                    ELSE IF seg.text = "query" THEN q
                    ELSE IF seg.text = "context" THEN c
                    ELSE "{" \o seg.text \o "}"
         IN  out \o Format(Tail(t), q, c)

(***************************************************************************)
(* The vector store and the retrieval result.                              *)
(***************************************************************************)
ChunkIds == 1..NumChunks
ChunkText(i) == "chunk" \o ToString(i)
ChunkFile(i) == "rapport" \o ToString(i) \o ".pdf"
ChunkPage(i) == ToString(3 + i)

\* collection.query(n_results=5): a ranking of at most N_RESULTS chunks.
Results ==
    { r \in UNION { [1..n -> ChunkIds] : n \in 0..Min(N_RESULTS, NumChunks) } :
        \A i, j \in 1..Len(r) : i # j => r[i] # r[j] }

documents(r) == [i \in 1..Len(r) |-> ChunkText(r[i])]
metadatas(r) == [i \in 1..Len(r) |->
                    [file_name |-> ChunkFile(r[i]), page_label |-> ChunkPage(r[i])]]
file_names(r) == [i \in 1..Len(r) |-> metadatas(r)[i].file_name]
page_numbers(r) == [i \in 1..Len(r) |-> metadatas(r)[i].page_label]

\* Variant: every chunk gets the metadata of the first one.
SuffixedFirstMeta(r) ==
    [i \in 1..Len(r) |->
        documents(r)[i] \o " (filename: " \o file_names(r)[1]
                        \o ", page_number: " \o page_numbers(r)[1] \o ")"]

\* The suffix loop of the seges app.
Suffixed(r) ==
    [i \in 1..Len(r) |->
        documents(r)[i] \o " (filename: " \o file_names(r)[i]
                        \o ", page_number: " \o page_numbers(r)[i] \o ")"]

Context(a, r) == IF a = "seges" THEN Suffixed(r) ELSE documents(r)

RECURSIVE Join(_, _)
Join(sep, xs) ==
    IF xs = <<>> THEN ""
    ELSE IF Len(xs) = 1 THEN xs[1]
    ELSE xs[1] \o sep \o Join(sep, Tail(xs))

\* Variant: the request is built from the session transcript (the
\* alternative left in the source as a comment).
ChatRequestHistory(session_messages, msg) ==
    [k \in 1..Len(session_messages) |->
        [role |-> session_messages[k].role, content |-> session_messages[k].content]]

\* messages=[{"role": m["role"], "content": m["content"]}
\*           for m in [{"role": "user", "content": message}]]
ChatRequest(session_messages, msg) ==
    LET ms == <<[role |-> "user", content |-> msg]>>
    IN  [k \in 1..Len(ms) |-> [role |-> ms[k].role, content |-> ms[k].content]]

Queries == {"Hvad er vigtigst ved jordbearbejdning?", "Hvornaar saas vinterhvede?"}
Deltas == {"Ja", "Nej"}
Triggers == {"load", "edit", "reset", "query"}

(***************************************************************************)
(* The chat script.                                                        *)
(***************************************************************************)
Idle == pc \in {"done", "raised"}

\* The start of every run: no run is in progress, and the run's locals are
\* not yet bound.  before records the transcript the run started from.
RunStart(t) ==
    /\ Idle
    /\ trigger' = t
    /\ before' = messages
    /\ calls' = 0
    /\ stream' = <<>>
    /\ response' = ""
    /\ request' = <<>>
    /\ shown' = FALSE
    /\ UNCHANGED <<app, ingestVars>>

\* The locals of the query handler are unbound: the chat input returned
\* None, or the run is over and its locals are gone.
NoLocals ==
    /\ result' = <<>>
    /\ context' = <<>>
    /\ message' = ""
    /\ request' = <<>>

NoQuery ==
    /\ query' = ""
    /\ result' = <<>>
    /\ context' = <<>>
    /\ message' = ""

\* for message in st.session_state.messages: st.chat_message(...).markdown(...)
RenderLoop(ms) == [k \in 1..Len(ms) |-> [role |-> ms[k].role, content |-> ms[k].content]]

\* Variant: the reset drops the last exchange only.
NewSessionUndo(ms) == SubSeq(ms, 1, IF Len(ms) >= 2 THEN Len(ms) - 2 ELSE 0)

\* st.session_state.messages = []
NewSession(ms) == <<>>

\* Variant: the user entry holds the rendered prompt (the alternative left
\* in the source as a comment).
UserEntryPrompt(q, msg) == [role |-> "user", content |-> msg]

\* st.session_state.messages.append({"role": "user", "content": query})
UserEntry(q, msg) == [role |-> "user", content |-> q]

\* Variant: the assistant entry takes the place of the last entry.
AssistantEntryReplace(ms, resp) ==
    IF ms = <<>> THEN <<[role |-> "assistant", content |-> resp]>>
    ELSE [ms EXCEPT ![Len(ms)] = [role |-> "assistant", content |-> resp]]

\* st.session_state.messages.append({"role": "assistant", "content": response})
AssistantEntry(ms, resp) == Append(ms, [role |-> "assistant", content |-> resp])

\* Variant: the exception is caught and reported as an assistant entry.
Caught(ms) == Append(ms, [role |-> "assistant", content |-> "Fejl"])

\* An exception is caught nowhere in the script: the statements after the
\* raising one do not run, so the transcript stays as the run left it.
Uncaught(ms) == ms

\* A run started by an edit of the side-panel prompt field.
EditPrompt(t) ==
    /\ RunStart("edit")
    /\ screen' = RenderLoop(messages)
    /\ prompt_template' = t
    /\ NoQuery
    /\ pc' = "done"
    /\ raised' = "none"
    /\ UNCHANGED messages

\* A run started by the "Ny chatsession" button: the render loop comes
\* first in the script, the button after it.
NewChatSession ==
    /\ app = "seges"
    /\ RunStart("reset")
    /\ screen' = RenderLoop(messages)
    /\ messages' = NewSession(messages)
    /\ NoQuery
    /\ pc' = "done"
    /\ raised' = "none"
    /\ UNCHANGED prompt_template

\* A run started by the chat input whose retrieval call raises.
QueryRaises(q) ==
    /\ RunStart("query")
    /\ screen' = RenderLoop(messages)
    /\ query' = q
    /\ result' = <<>>
    /\ context' = <<>>
    /\ message' = ""
    /\ messages' = Uncaught(messages)
    /\ pc' = "raised"
    /\ raised' = "query"
    /\ UNCHANGED prompt_template

\* A run started by the chat input whose prompt.format raises: str.format
\* raises KeyError for a replacement field it has no argument for.
FormatRaises(q) ==
    /\ UnsuppliedFields(PromptTemplate(app, prompt_template)) # {}
    /\ RunStart("query")
    /\ screen' = RenderLoop(messages)
    /\ query' = q
    /\ result' = <<>>
    /\ context' = <<>>
    /\ message' = ""
    /\ messages' = Uncaught(messages)
    /\ pc' = "raised"
    /\ raised' = "format"
    /\ UNCHANGED prompt_template

\* A run started by the chat input, up to the call of the completion
\* service: retrieval, context assembly, substitution, the user entry.
\* (A formatter that leaves an unknown field in place reaches this too.)
ChatInput(q, r) ==
    /\ Len(messages) + 2 <= MaxMessages
    /\ RunStart("query")
    /\ query' = q
    /\ result' = r
    /\ context' = Context(app, r)
    /\ message' = Format(PromptTemplate(app, prompt_template), q,
                         Join("\n\n", Context(app, r)))
    /\ messages' = Append(messages, UserEntry(q, message'))
    /\ screen' = Append(RenderLoop(messages), [role |-> "user", content |-> q])
    /\ pc' = "create"
    /\ raised' = "none"
    /\ UNCHANGED prompt_template

\* client.chat.completions.create(...) returns the stream.
Create ==
    /\ pc = "create"
    /\ calls' = calls + 1
    /\ request' = ChatRequest(messages, message)
    /\ screen' = Append(screen, [role |-> "assistant", content |-> ""])
    /\ pc' = "write_stream"
    /\ UNCHANGED <<app, messages, prompt_template, trigger, raised, before,
                   query, result, context, message, response, stream, shown,
                   ingestVars>>

\* client.chat.completions.create(...) raises.
CreateRaises ==
    /\ pc = "create"
    /\ calls' = calls + 1
    /\ NoLocals
    /\ messages' = Uncaught(messages)
    /\ pc' = "raised"
    /\ raised' = "create"
    /\ UNCHANGED <<app, prompt_template, trigger, before, query, response,
                   stream, screen, shown, ingestVars>>

\* st.write_stream takes one text delta off the stream, appends it to the
\* text it has and re-renders the assistant message with it.
StreamDelta(d) ==
    /\ pc = "write_stream"
    /\ Len(stream) < MaxDeltas
    /\ stream' = Append(stream, d)
    /\ response' = response \o d
    /\ screen' = [screen EXCEPT ![Len(screen)].content = response \o d]
    /\ UNCHANGED <<app, messages, prompt_template, pc, trigger, raised, before,
                   query, result, context, message, request, calls, shown,
                   ingestVars>>

\* The stream raises while st.write_stream iterates it.
StreamRaises ==
    /\ pc = "write_stream"
    /\ messages' = Uncaught(messages)
    /\ NoLocals
    /\ pc' = "raised"
    /\ raised' = "write_stream"
    /\ UNCHANGED <<app, prompt_template, trigger, before, query, calls,
                   response, stream, screen, shown, ingestVars>>

\* The stream ends: write_stream returns the whole text, the assistant
\* entry is appended, the retrieved context is displayed and the run ends.
StreamEnd ==
    /\ pc = "write_stream"
    /\ messages' = AssistantEntry(messages, response)
    /\ shown' = TRUE
    /\ NoLocals
    /\ pc' = "done"
    /\ UNCHANGED <<app, prompt_template, trigger, raised, before, query,
                   calls, response, stream, screen, ingestVars>>

ChatInit ==
    /\ app \in Apps
    /\ messages = <<>>
    /\ prompt_template = default_prompt(app)
    /\ pc = "done"
    /\ trigger = "load"
    /\ raised = "none"
    /\ before = <<>>
    /\ query = ""
    /\ result = <<>>
    /\ context = <<>>
    /\ message = ""
    /\ request = <<>>
    /\ calls = 0
    /\ response = ""
    /\ stream = <<>>
    /\ screen = <<>>
    /\ shown = FALSE

(***************************************************************************)
(* Document ingestion (util/helpers.py).  A title and a page text are      *)
(* sequences of characters, so that lower() and replace() act on them as   *)
(* they do on a Python string.                                             *)
(***************************************************************************)
TitleAlphabet == {"A", "a", " ", "-"}
TitlesOfLen(n) == [1..n -> TitleAlphabet]
Titles == UNION { TitlesOfLen(n) : n \in 1..MaxTitleLen }

lower(s) == [k \in 1..Len(s) |-> IF s[k] = "A" THEN "a" ELSE s[k]]

RECURSIVE replace(_, _, _)
replace(s, old, new) ==
    IF Len(s) < Len(old) THEN s
    ELSE IF SubSeq(s, 1, Len(old)) = old
         THEN new \o replace(SubSeq(s, Len(old) + 1, Len(s)), old, new)
         ELSE <<Head(s)>> \o replace(Tail(s), old, new)

path == <<"./data/docs/">>

\* f"{path}{ title.lower().replace(' ', '-') }.md"
filename(title) == path \o replace(lower(title), <<" ">>, <<"-">>) \o <<".md">>

\* The texts of the k-th page handed to the ingestion.
PageSummary(k) == <<"s", ToString(k)>>
PageContent(k) ==
    IF k % 2 = 1
    THEN <<"\n", "=", "=", "h", ToString(k), "=", "=", "\n", "x">>
    ELSE <<"x", ToString(k), "\n", "=", "=", "=", "=", "h", "=", "=", "=", "=">>
PageSections(k) ==
    [n \in 1..(k - 1) |-> [title |-> <<"t", ToString(n)>>,
                           content |-> <<"c", ToString(k), ToString(n)>>]]

Page(k, title) ==
    [title |-> title, summary |-> PageSummary(k), content |-> PageContent(k),
     sections |-> PageSections(k)]

Header(level, title) == [tag |-> "header", level |-> level, text |-> title]
Paragraph(text) == [tag |-> "paragraph", level |-> 0, text |-> text]
Line == [tag |-> "line", level |-> 0, text |-> <<>>]

WikiMarkup(text) ==
    replace(replace(replace(replace(replace(replace(text,
        <<"\n", "=", "=", "=", "=">>, <<"#", "#", "#">>),
        <<"=", "=", "=", "=">>, <<>>),
        <<"\n", "=", "=", "=">>, <<"#", "#">>),
        <<"=", "=", "=">>, <<>>),
        <<"\n", "=", "=">>, <<"#">>),
        <<"=", "=">>, <<>>)

\* The document create_and_save_wiki_md_file writes.
WikiMdFile(page) ==
    << Header(0, page.title),
       Header(1, <<"Summary">>), Paragraph(page.summary), Line,
       Header(1, page.title), Paragraph(WikiMarkup(page.content)) >>

RECURSIVE SectionBlocks(_)
SectionBlocks(sections) ==
    IF sections = <<>> THEN <<>>
    ELSE << Header(2, Head(sections).title),
            Paragraph(Head(sections).content), Line >>
         \o SectionBlocks(Tail(sections))

\* The document create_and_save_md_file writes.
FandomMdFile(page) ==
    << Header(0, page.title),
       Header(1, <<"Summary">>), Paragraph(page.summary), Line,
       Header(1, page.title), Paragraph(page.content), Line >>
    \o SectionBlocks(page.sections)

MdFile(v, page) == IF v = "wiki" THEN WikiMdFile(page) ELSE FandomMdFile(page)

\* mdFile.create_md_file(): the file of that name is created or replaced.
create_md_file(fs, name, doc) == (name :> doc) @@ fs

\* if not os.path.exists(path): os.makedirs(path)
MakeDirs ==
    /\ next = 0
    /\ path_exists' = TRUE
    /\ next' = 1
    /\ UNCHANGED <<variant, pages, files, chatVars>>

\* One turn of "for page in pages" in create_and_save_wiki_md_files.
create_and_save_wiki_md_file ==
    /\ variant = "wiki"
    /\ next \in 1..Len(pages)
    /\ files' = create_md_file(files, filename(pages[next].title),
                               WikiMdFile(pages[next]))
    /\ next' = next + 1
    /\ UNCHANGED <<variant, pages, path_exists, chatVars>>

\* One turn of "for page in pages" in create_and_save_md_files.
create_and_save_md_file ==
    /\ variant = "fandom"
    /\ next \in 1..Len(pages)
    /\ files' = create_md_file(files, filename(pages[next].title),
                               FandomMdFile(pages[next]))
    /\ next' = next + 1
    /\ UNCHANGED <<variant, pages, path_exists, chatVars>>

\* The pages argument: n pages with the given titles.
PageList(titles) == [k \in 1..Len(titles) |-> Page(k, titles[k])]

IngestIdle ==
    /\ variant = "wiki"
    /\ pages = <<>>
    /\ next = 0
    /\ path_exists = FALSE
    /\ files = <<>>

IngestInit ==
    /\ ChatInit
    /\ app = "seges"
    /\ variant \in {"wiki", "fandom"}
    /\ \E n \in 0..MaxPages : \E titles \in [1..n -> Titles] :
          pages = PageList(titles)
    /\ next = 0
    /\ path_exists \in BOOLEAN
    /\ files = <<>>

IngestNext ==
    \/ MakeDirs
    \/ create_and_save_wiki_md_file
    \/ create_and_save_md_file

IngestSpec == IngestInit /\ [][IngestNext]_vars

IngestDone == next = Len(pages) + 1

Init == ChatInit /\ IngestIdle

Next ==
    \/ \E t \in EditedTemplates \cup {default_prompt(app)} : EditPrompt(t)
    \/ NewChatSession
    \/ \E q \in Queries : QueryRaises(q)
    \/ \E q \in Queries : FormatRaises(q)
    \/ \E q \in Queries, r \in Results : ChatInput(q, r)
    \/ Create
    \/ CreateRaises
    \/ \E d \in Deltas : StreamDelta(d)
    \/ StreamRaises
    \/ StreamEnd

Spec == Init /\ [][Next]_vars

TypeOK ==
    /\ app \in Apps
    /\ pc \in {"done", "create", "write_stream", "raised"}
    /\ trigger \in Triggers
    /\ Len(messages) <= MaxMessages
    /\ calls \in 0..1
    /\ Len(stream) <= MaxDeltas

(***************************************************************************)
(* Properties.                                                             *)
(***************************************************************************)
IsPrefix(xs, ys) == Len(xs) <= Len(ys) /\ SubSeq(ys, 1, Len(xs)) = xs

user(text) == [role |-> "user", content |-> text]
assistant(text) == [role |-> "assistant", content |-> text]

\* A query run that is past retrieval and substitution.
PastFormat == trigger = "query" /\ pc \in {"create", "write_stream"}

\* A query run that ran to its end.
Handled == trigger = "query" /\ pc = "done"

\* C1: when a query has been handled, the transcript is the transcript the
\* run started from followed by exactly two entries: the user entry with the
\* raw query text, then the assistant entry with the concatenation of all
\* the text deltas of the stream.
C1_TwoEntries ==
    Handled => messages = before \o <<user(query), assistant(Join("", stream))>>

C1_Witness ==
    Handled /\ Len(before) >= 1 /\ Len(stream) >= 2 /\ stream[1] # stream[2]

\* The fragment and the block spelled out chunk by chunk, for an app that
\* cites (the suffix) and for one that does not.
Cited(id) ==
    ChunkText(id) \o " (filename: " \o ChunkFile(id) \o ", page_number: "
                  \o ChunkPage(id) \o ")"

RECURSIVE Block(_, _)
Block(cites, r) ==
    IF r = <<>> THEN ""
    ELSE (IF cites THEN Cited(Head(r)) ELSE ChunkText(Head(r)))
         \o (IF Len(r) > 1 THEN "\n\n" \o Block(cites, Tail(r)) ELSE "")

BlockIs(cites) ==
    /\ Len(context) = Len(result)
    /\ \A i \in 1..Len(result) :
          context[i] = IF cites THEN Cited(result[i]) ELSE ChunkText(result[i])
    /\ message = Format(PromptTemplate(app, prompt_template), query, Block(cites, result))

\* C2 as stated: in each app the context block of a non-empty retrieval
\* result is the cited fragments, each chunk with its own file name and page
\* label, joined by a blank line in rank order.
C2_CitedInEachApp == (PastFormat /\ result # <<>>) => BlockIs(TRUE)

\* C2 amended: that holds in the seges app; in streamlit-app.py the block is
\* the bare chunk texts joined by a blank line in rank order.
C2_CitedInSeges == (PastFormat /\ result # <<>>) => BlockIs(app = "seges")

C2_Witness ==
    /\ PastFormat
    /\ app = "seges"
    /\ Len(result) = 2
    /\ result[1] = 2
    /\ "context" \in FieldNames(PromptTemplate(app, prompt_template))

\* C3: at the end of the run the reset control started, the stored
\* transcript is empty, whatever the transcript was before.
C3_ResetEmpties == (trigger = "reset" /\ pc = "done") => messages = <<>>

C3_Witness == trigger = "reset" /\ pc = "done" /\ Len(before) >= 3

\* Transcripts a second session could hold when it sends the same prompt.
OtherTranscripts ==
    { <<>>, before, messages,
      <<user("Hvornaar saas vinterhvede?"), assistant("NejJa")>> }

\* C4: the request sent is the one-message list [user: rendered prompt], and
\* a session holding any other transcript builds the same request from the
\* same rendered prompt.
C4_RequestIgnoresTranscript ==
    pc = "write_stream" =>
        /\ request = <<user(message)>>
        /\ \A t \in OtherTranscripts : ChatRequest(t, message) = request

C4_Witness == calls = 1 /\ Len(before) >= 2 /\ pc = "write_stream"

\* C5: a step of a run that is not a reset run leaves the transcript a
\* prefix of what it becomes, and a run that neither handles a query nor
\* resets leaves it unchanged.
C5_AppendOnly ==
    [][ /\ trigger' # "reset" => IsPrefix(messages, messages')
        /\ trigger' \notin {"reset", "query"} => messages' = messages ]_vars

C5_Witness == Handled /\ Len(before) >= 2 /\ IsPrefix(before, messages)

\* C7: when the completion call or its stream has raised, the run has
\* ended there, the call was made once, the transcript has gained the user
\* entry but no assistant entry, and the context is not displayed.
C7_FaultEndsRequest ==
    raised \in {"create", "write_stream"} =>
        /\ pc = "raised"
        /\ calls = 1
        /\ messages = Append(before, user(query))
        /\ ~shown

C7_Witness == raised = "write_stream" /\ Len(stream) >= 1 /\ Len(before) >= 1

\* The field's text lacks {context} or {query}.
LacksPlaceholder == ~({"context", "query"} \subseteq FieldNames(prompt_template))

\* C8 as stated: with a field text that lacks {context} or {query}, a query
\* run ends in a formatting failure at the substitution, so no such run
\* gets past it.
C8_MissingPlaceholderFails == PastFormat => ~LacksPlaceholder

\* C8 amended: a field text that lacks {context} or {query} is rendered
\* without a formatting failure, the argument no placeholder uses being
\* dropped; a formatting failure needs a replacement field other than the
\* two.
C8_MissingPlaceholderRenders ==
    LET t == PromptTemplate(app, prompt_template)
    IN  /\ raised = "format" =>
              \E k \in 1..Len(t) :
                  t[k].kind = "field" /\ t[k].text \notin {"context", "query"}
        /\ (PastFormat /\ "context" \notin FieldNames(t)) =>
              message = Format(t, query, "")
        /\ (PastFormat /\ "query" \notin FieldNames(t)) =>
              message = Format(t, "", Join("\n\n", context))

C8_Witness ==
    /\ pc = "write_stream"
    /\ app = "vtdat"
    /\ FieldNames(prompt_template) = {"query"}
    /\ message = "Svar paa " \o query

\* C9: with no request in flight the transcript has even length and its
\* roles alternate user, assistant, starting with user.
C9_RolesAlternate ==
    Idle =>
        /\ Len(messages) % 2 = 0
        /\ \A k \in 1..Len(messages) :
              messages[k].role = IF k % 2 = 1 THEN "user" ELSE "assistant"

\* C10: in the seges app, at the end of a run without a fault the chat
\* messages on screen are the entries of the stored transcript, in order.
C10_ScreenIsTranscript == (app = "seges" /\ pc = "done") => screen = messages

\* C6: after the ingestion of pages with pairwise distinct titles there is
\* one file per page, named by the page's slug and holding that page's
\* document.
C6_OneFilePerPage ==
    (IngestDone /\ \A i, j \in 1..Len(pages) : i # j => pages[i].title # pages[j].title)
    => /\ Cardinality(DOMAIN files) = Len(pages)
       /\ \A k \in 1..Len(pages) :
             /\ filename(pages[k].title) \in DOMAIN files
             /\ files[filename(pages[k].title)] = MdFile(variant, pages[k])

====
